---------------------------- MODULE Spec2Model ----------------------------
(***************************************************************************)
(* Reservation admission of the apartment moving-reservation application.  *)
(*                                                                         *)
(* The browser side (reservation form, ReservationService, admin and user  *)
(* pages) is modelled from the TypeScript sources.  The FastAPI backend    *)
(* behind the REST endpoints is the Reservation Store of the design        *)
(* document; its endpoints are modelled from sections 3, 4 and 6 of that   *)
(* document (definitions prefixed "Store").                                *)
(*                                                                         *)
(* Time is counted in whole hours.  An instant is the number of hours      *)
(* since 00:00 UTC of day 0; the browser and the backend run in local      *)
(* time, TzOffsetHours ahead of UTC.                                       *)
(***************************************************************************)
EXTENDS Integers, Sequences, FiniteSets, TLC

(***************************************************************************)
(* Bounds of the model.                                                    *)
(***************************************************************************)
MaxRes == 2          \* rows the store may hold
MaxElapsed == 6      \* seconds the home page's clock counts
MaxDecisions == 2    \* decide calls counted per row of the admin page
MaxCalls == 2        \* decide calls of the admin page in flight
MaxPromises == 3     \* calls of one debounced validator

(***************************************************************************)
(* Program constants.                                                      *)
(***************************************************************************)
HoursPerDay == 24
TzOffsetHours == 9   \* Asia/Seoul

Clients == {"c1", "c2"}            \* mounted instances of the form
Units == {"u1", "u2"}              \* apartment units of the sessions
ResourceTypes == {"elevator", "parking", "other"}
FormTypes == {"elevator", "parking"}   \* types the model's users pick
Statuses == {"pending", "approved", "rejected", "completed", "cancelled"}
ActiveStatuses == {"pending", "approved"}
AdminOutcomes == {"approved", "rejected"}

NoDate == -1         \* selectedDate undefined
NoExclude == 0       \* excludeReservationId undefined
NoResult == [op |-> "none", kind |-> "none"]
FailedLimitCheck == [op |-> "checkApartmentReservationLimit", kind |-> "requestFailed"]
FailedConflictCheck == [op |-> "checkConflict", kind |-> "requestFailed"]
NoRun == [date |-> NoDate, slot |-> "", rtype |-> "elevator", rowsAtCheck |-> 0]
NoTry == [retryCount |-> 0, committed |-> 0]

VARIABLES
  reservations,            \* the Reservation Store: rows in insertion order
  admitLog,                \* history: rows the store held when each row's
                           \* conflict check was answered
  sessionUnit,             \* unit of the session behind each form
  pc,                      \* position of each form instance
  hasExistingReservation,  \* form state
  existingReservations,    \* form state (ids of the rows the limit check returned)
  isLoading,               \* form state
  error,                   \* form state (kind of the message shown)
  success,                 \* form state (success message shown)
  run,                     \* values captured by the handleSubmit in flight
  lastResult,              \* outcome of the request answered in the last step
  createTry,               \* the createReservation request in flight of each form
  created,                 \* history: rows committed by the create attempts of
                           \* each form instance
  request,                 \* requests issued through apiClient
  tokens,                  \* localStorage holds access_token and refresh_token
  session,                 \* useSession(): status and data
  route,                   \* page the router shows
  home,                    \* Home: showContent, its timer, seconds since the
                           \* timer was set, effects not yet flushed
  pageList,                \* AdminReservations: reservations (id -> status)
  actionDialog,            \* AdminReservations: actionDialog
  dialogLoading,           \* ActionDialog: isLoading
  calls,                   \* approve / reject calls of the service in flight
  decisions,               \* history: decide calls sent for each row
  timeouts,                \* createDebouncedValidator: timeouts (field -> timer id)
  timers,                  \* timers of the window that are set and neither
                           \* cleared nor fired
  promises                 \* promises the debounced validator returned, by call

resVars == <<reservations, admitLog, sessionUnit, pc, hasExistingReservation,
             existingReservations, isLoading, error, success, run, lastResult>>

tryVars == <<createTry, created>>

apiVars == <<request, tokens>>

sessionVars == <<session, route>>

adminVars == <<pageList, actionDialog, dialogLoading, calls, decisions>>

debounceVars == <<timeouts, timers, promises>>

pageVars == <<apiVars, sessionVars, home, adminVars, debounceVars>>

vars == <<resVars, tryVars, pageVars>>

formVars == <<pc, hasExistingReservation, existingReservations, isLoading,
              error, success, run>>

-----------------------------------------------------------------------------
(***************************************************************************)
(* Reservation Store (backend endpoints, from the design document).        *)
(***************************************************************************)

Active(r) == r.status \in ActiveStatuses

\* half-open interval overlap, section 3
Overlaps(aStart, aEnd, bStart, bEnd) == aStart < bEnd /\ bStart < aEnd

\* variant of StoreConflicts that lets pending rows through
StoreConflictsApprovedOnly(rows, rtype, startTime, endTime, excludeId) ==
  { i \in DOMAIN rows :
      /\ rows[i].rtype = rtype
      /\ rows[i].status = "approved"
      /\ rows[i].id # excludeId
      /\ Overlaps(rows[i].startTime, rows[i].endTime, startTime, endTime) }

\* section 4.1: every active row of the type, other than the excluded one,
\* whose window overlaps the candidate
StoreConflicts(rows, rtype, startTime, endTime, excludeId) ==
  { i \in DOMAIN rows :
      /\ rows[i].rtype = rtype
      /\ Active(rows[i])
      /\ rows[i].id # excludeId
      /\ Overlaps(rows[i].startTime, rows[i].endTime, startTime, endTime) }

\* GET /api/reservations/conflicts/check: the window is rebuilt from the
\* date and the two wall-clock times of the query string; an empty or
\* inverted window is refused (InvalidTimeRange)
StoreConflictCheck(rows, params) ==
  LET s == params.reservation_date * HoursPerDay + params.start_time - TzOffsetHours
      e == params.reservation_date * HoursPerDay + params.end_time - TzOffsetHours
      c == StoreConflicts(rows, params.equipment_type, s, e, params.exclude_reservation_id)
  IN IF s >= e
       THEN [ok |-> FALSE, has_conflict |-> FALSE, conflicting_reservations |-> {}]
       ELSE [ok |-> TRUE, has_conflict |-> c # {}, conflicting_reservations |-> c]

\* section 4.2 / GET /api/reservations/check-apartment-limit
StoreUnitActive(rows, unit) ==
  { i \in DOMAIN rows : rows[i].unit = unit /\ Active(rows[i]) }

\* section 6 (3) / POST /api/reservations/: insert with a server-assigned id
StoreInsert(rows, unit, rtype, startTime, endTime) ==
  Append(rows, [id |-> Len(rows) + 1, unit |-> unit, rtype |-> rtype,
                startTime |-> startTime, endTime |-> endTime,
                status |-> "pending"])

\* variant of StoreDecideAllowed without the guard on the current status
StoreDecideAllowedAny(rows, id) == id \in DOMAIN rows

\* section 4.3 decide: only from pending
StoreDecideAllowed(rows, id) == id \in DOMAIN rows /\ rows[id].status = "pending"

\* variant of StoreDecide that writes the outcome without comparing
StoreDecideBlind(rows, id, outcome) ==
  IF id \in DOMAIN rows
    THEN [rows EXCEPT ![id].status = outcome]
    ELSE rows

StoreDecide(rows, id, outcome) ==
  IF StoreDecideAllowed(rows, id)
    THEN [rows EXCEPT ![id].status = outcome]
    ELSE rows

\* variant of StoreCancelAllowed without the guard on the current status
StoreCancelAllowedAny(rows, id) == id \in DOMAIN rows

\* section 4.3 cancel: only from pending or approved
StoreCancelAllowed(rows, id) == id \in DOMAIN rows /\ rows[id].status \in {"pending", "approved"}

StoreCancel(rows, id) ==
  IF StoreCancelAllowed(rows, id)
    THEN [rows EXCEPT ![id].status = "cancelled"]
    ELSE rows

\* A removed row keeps its position in the sequence, marked Removed, so that
\* the auto-incremented ids are never handed out twice; it is no longer part
\* of the store.
Removed == "removed"
Stored(rows) == { i \in DOMAIN rows : rows[i].status # Removed }

\* DELETE /api/reservations/{id} ("예약 삭제"): the row is removed; the
\* request is accepted for the rows an owner may cancel
StoreDelete(rows, id) ==
  IF StoreCancelAllowed(rows, id)
    THEN [rows EXCEPT ![id].status = Removed]
    ELSE rows

-----------------------------------------------------------------------------
(***************************************************************************)
(* Browser side.                                                           *)
(***************************************************************************)

\* reservation.tsx: the three selectable slots
timeSlots ==
  << [id |-> "1", startHour |-> 9,  endHour |-> 12],
     [id |-> "2", startHour |-> 12, endHour |-> 15],
     [id |-> "3", startHour |-> 15, endHour |-> 18] >>

SlotIds == {"", "1", "2", "9"}     \* ids the model's users pick: "" = nothing selected, "9" = unknown id

\* timeSlots.find(slot => slot.id === selectedTimeSlot)
FindSlot(slotId) == { i \in DOMAIN timeSlots : timeSlots[i].id = slotId }

\* variant of SetHours that takes the wall-clock hour for a UTC hour
SetHoursUtc(date, hour) == date * HoursPerDay + hour

\* new Date(date); setHours(hour, 0, 0, 0); toISOString(): the instant of
\* the local wall-clock hour of the selected local day
SetHours(date, hour) == date * HoursPerDay + hour - TzOffsetHours

\* startDate.toISOString().split('T')[0]: the UTC calendar day
IsoDate(t) == t \div HoursPerDay

\* date.toTimeString().split(' ')[0].substring(0, 5): local wall-clock time
LocalTime(t) == (t + TzOffsetHours) % HoursPerDay

\* variant of ConflictParams that sends the end hour as an inclusive hour
ConflictParamsInclusiveEnd(reservationType, startTime, endTime, excludeReservationId) ==
  [reservation_date |-> IsoDate(startTime),
   start_time |-> LocalTime(startTime),
   end_time |-> LocalTime(endTime) + 1,
   equipment_type |-> reservationType,
   exclude_reservation_id |-> IF excludeReservationId # NoExclude
                                THEN excludeReservationId ELSE NoExclude]

\* query string built by ReservationService.checkConflict
ConflictParams(reservationType, startTime, endTime, excludeReservationId) ==
  [reservation_date |-> IsoDate(startTime),
   start_time |-> LocalTime(startTime),
   end_time |-> LocalTime(endTime),
   equipment_type |-> reservationType,
   exclude_reservation_id |-> IF excludeReservationId # NoExclude
                                THEN excludeReservationId ELSE NoExclude]

\* variant of checkConflict that assumes a conflict when the request fails
checkConflictFailClosed(rows, reservationType, startTime, endTime, excludeReservationId, requestOk) ==
  LET resp == StoreConflictCheck(rows,
                ConflictParams(reservationType, startTime, endTime, excludeReservationId))
  IN IF requestOk /\ resp.ok
       THEN [has_conflict |-> resp.has_conflict,
             conflicting_reservations |-> resp.conflicting_reservations]
       ELSE [has_conflict |-> TRUE, conflicting_reservations |-> {}]

\* ReservationService.checkConflict; requestOk = FALSE is a failed request
checkConflict(rows, reservationType, startTime, endTime, excludeReservationId, requestOk) ==
  LET resp == StoreConflictCheck(rows,
                ConflictParams(reservationType, startTime, endTime, excludeReservationId))
  IN IF requestOk /\ resp.ok
       THEN [has_conflict |-> resp.has_conflict,
             conflicting_reservations |-> resp.conflicting_reservations]
       ELSE [has_conflict |-> FALSE, conflicting_reservations |-> {}]

\* variant of checkApartmentReservationLimit that hands on a single match
checkApartmentReservationLimitOneMatch(rows, unit, requestOk) ==
  LET found == StoreUnitActive(rows, unit)
  IN IF requestOk
       THEN [has_existing_reservation |-> found # {},
             existing_reservations |->
               IF found = {} THEN {}
               ELSE {CHOOSE i \in found : \A k \in found : i <= k}]
       ELSE [has_existing_reservation |-> FALSE, existing_reservations |-> {}]

\* ReservationService.checkApartmentReservationLimit
checkApartmentReservationLimit(rows, unit, requestOk) ==
  IF requestOk
    THEN [has_existing_reservation |-> StoreUnitActive(rows, unit) # {},
          existing_reservations |-> StoreUnitActive(rows, unit)]
    ELSE [has_existing_reservation |-> FALSE, existing_reservations |-> {}]

\* variant of FormCheckConflict that drops the answer of the service
FormCheckConflictIgnored(rows, reservationType, date, slot, requestOk) == FALSE

\* the form's checkConflict(date, timeSlot): returns result.has_conflict
FormCheckConflict(rows, reservationType, date, slot, requestOk) ==
  checkConflict(rows, reservationType,
                SetHours(date, timeSlots[slot].startHour),
                SetHours(date, timeSlots[slot].endHour),
                NoExclude, requestOk).has_conflict

\* variant of validateReservationTime that lets an empty window through
validateReservationTimeStrict(startTime, endTime) ==
  IF startTime > endTime THEN "endNotAfterStart"
  ELSE IF endTime - startTime > 4 THEN "tooLong"
  ELSE IF endTime - startTime < 0 THEN "tooShort"
  ELSE "null"

\* BusinessValidation.validateReservationTime on two "HH:00" times, given as
\* hours; "null" is no complaint
validateReservationTime(startTime, endTime) ==
  IF startTime >= endTime THEN "endNotAfterStart"
  ELSE IF endTime - startTime > 4 THEN "tooLong"
  ELSE IF endTime - startTime < 1 THEN "tooShort"
  ELSE "null"

-----------------------------------------------------------------------------
(***************************************************************************)
(* HTTP client (lib/api.ts): the response interceptor's error handler.     *)
(***************************************************************************)

maxRetries == 3                     \* RETRY_CONFIG.maxRetries
retryOn == {"NETWORK_ERROR", "TIMEOUT_ERROR", "CONNECTION_REFUSED"}

NoStatus == 0                       \* the error carries no response
NoErrorCode == ""                   \* the response body carries no error_code

\* variant of mapStatusCodeToErrorCode reporting 401 as a network failure
mapStatusCodeToErrorCodeAsNetwork(statusCode) ==
  CASE statusCode = 400 -> "BAD_REQUEST"
    [] statusCode = 401 -> "NETWORK_ERROR"
    [] statusCode = 403 -> "FORBIDDEN"
    [] statusCode = 404 -> "NOT_FOUND"
    [] statusCode = 409 -> "DUPLICATE_VALUE"
    [] statusCode = 422 -> "VALIDATION_ERROR"
    [] OTHER -> "OPERATION_FAILED"

mapStatusCodeToErrorCode(statusCode) ==
  CASE statusCode = 400 -> "BAD_REQUEST"
    [] statusCode = 401 -> "UNAUTHORIZED"
    [] statusCode = 403 -> "FORBIDDEN"
    [] statusCode = 404 -> "NOT_FOUND"
    [] statusCode = 409 -> "DUPLICATE_VALUE"
    [] statusCode = 422 -> "VALIDATION_ERROR"
    [] OTHER -> "OPERATION_FAILED"

\* an axios error: status of its response (NoStatus without one), axios'
\* own code, and the error_code of a structured backend body
AxiosError(status, code, errorCode) ==
  [status |-> status, code |-> code, errorCode |-> errorCode]

parseApiError(e) ==
  IF e.status = NoStatus
    THEN IF e.code = "ECONNABORTED"
           THEN [code |-> "TIMEOUT_ERROR", statusCode |-> NoStatus]
           ELSE IF e.code = "ECONNREFUSED"
             THEN [code |-> "CONNECTION_REFUSED", statusCode |-> NoStatus]
             ELSE [code |-> "NETWORK_ERROR", statusCode |-> NoStatus]
    ELSE IF e.errorCode # NoErrorCode
      THEN [code |-> e.errorCode, statusCode |-> e.status]
      ELSE [code |-> mapStatusCodeToErrorCode(e.status), statusCode |-> e.status]

\* variant of shouldRetry that stops one retry later
shouldRetryPastLimit(appError, retryCount) ==
  IF retryCount > maxRetries THEN FALSE ELSE appError.code \in retryOn

shouldRetry(appError, retryCount) ==
  IF retryCount >= maxRetries THEN FALSE ELSE appError.code \in retryOn

Requests == {"r1", "r2"}
TokenKeys == {"access_token", "refresh_token"}

NoRequest ==
  [state |-> "idle", retryCount |-> 0, retry |-> FALSE, attempts |-> 0,
   clears |-> 0, code |-> "none", statusCode |-> NoStatus]

\* errors the transport and the backend answer with
AxiosErrors ==
  { AxiosError(NoStatus, "ECONNABORTED", NoErrorCode),
    AxiosError(NoStatus, "ECONNREFUSED", NoErrorCode),
    AxiosError(NoStatus, "ERR_NETWORK", NoErrorCode),
    AxiosError(401, "ERR_BAD_REQUEST", NoErrorCode),
    AxiosError(401, "ERR_BAD_REQUEST", "TOKEN_EXPIRED"),
    AxiosError(404, "ERR_BAD_REQUEST", NoErrorCode),
    AxiosError(500, "ERR_BAD_RESPONSE", NoErrorCode) }

-----------------------------------------------------------------------------
(***************************************************************************)
(* Pages: the session, Home, AdminGuard and the admin reservations page.   *)
(***************************************************************************)

NoSession == "null"                 \* useSession().data is null
\* session.user of an authenticated session: without the isAdmin field,
\* with isAdmin false, with isAdmin true
SessionUsers == {"noFlag", "user", "admin"}
Routes == {"home", "admin", "login"}

isAdmin(data) == data = "admin"     \* session?.user?.isAdmin is truthy

TimerSeconds == 5                   \* setTimeout(..., 5000)
NewHome == [showContent |-> FALSE, timer |-> "unset", elapsed |-> 0, effectDue |-> TRUE]

\* variant of AdminGuard that refuses only an isAdmin that is set and false
AdminGuardUnlessFalse(status, data) ==
  IF status = "loading" THEN "checking"
  ELSE IF status = "unauthenticated" THEN "loginRequired"
  ELSE IF data = "user" THEN "fallback"
  ELSE "children"

\* what AdminGuard returns
AdminGuard(status, data) ==
  IF status = "loading" THEN "checking"
  ELSE IF status = "unauthenticated" THEN "loginRequired"
  ELSE IF ~isAdmin(data) THEN "fallback"
  ELSE "children"

\* rows of the page's ReservationService.getReservations
MockIds == {1, 2}
MockReservations == (1 :> "pending") @@ (2 :> "approved")
NotLoaded == << >>
NoDialog == [id |-> 0, action |-> "none"]
PageActions == {"approve", "reject"}
ActionStatus(action) == IF action = "approve" THEN "approved" ELSE "rejected"

\* variant of OfferActions showing the buttons on every row
OfferActionsAlways(status) == TRUE

\* the approve / reject buttons are rendered for a row
OfferActions(status) == status = "pending"

-----------------------------------------------------------------------------
(***************************************************************************)
(* Debounced validator (createDebouncedValidator).                         *)
(***************************************************************************)

Fields == {"name", "phone"}
Values == {"", "a"}
NoTimer == 0                        \* timeouts.get(fieldName) is undefined

\* FormValidator.validateField for a rule that has at most `required`
validateField(value, required) == ~(required /\ value = "")

-----------------------------------------------------------------------------
Init ==
  /\ reservations = << >>
  /\ admitLog = << >>
  /\ sessionUnit = [c \in Clients |-> "u1"]
  /\ pc = [c \in Clients |-> "unmounted"]
  /\ hasExistingReservation = [c \in Clients |-> FALSE]
  /\ existingReservations = [c \in Clients |-> {}]
  /\ isLoading = [c \in Clients |-> FALSE]
  /\ error = [c \in Clients |-> "none"]
  /\ success = [c \in Clients |-> FALSE]
  /\ run = [c \in Clients |-> NoRun]
  /\ lastResult = NoResult
  /\ createTry = [c \in Clients |-> NoTry]
  /\ created = [c \in Clients |-> 0]
  /\ request = [r \in Requests |-> NoRequest]
  /\ tokens = {}
  /\ session = [status |-> "loading", data |-> NoSession]
  /\ route = "home"
  /\ home = NewHome
  /\ pageList = NotLoaded
  /\ actionDialog = NoDialog
  /\ dialogLoading = FALSE
  /\ calls = << >>
  /\ decisions = [id \in MockIds |-> 0]
  /\ timeouts = [f \in Fields |-> NoTimer]
  /\ timers = {}
  /\ promises = << >>

\* The form is (re)loaded by a session that carries an access token: state
\* is initialised and the effect asks the backend whether the session's unit
\* already holds an active reservation.
Mount(c, unit, requestOk) ==
  /\ pc[c] \in {"unmounted", "idle"}
  /\ sessionUnit' = [sessionUnit EXCEPT ![c] = unit]
  /\ LET result == checkApartmentReservationLimit(reservations, unit, requestOk)
     IN /\ hasExistingReservation' = [hasExistingReservation EXCEPT ![c] = result.has_existing_reservation]
        /\ existingReservations' = [existingReservations EXCEPT ![c] = result.existing_reservations]
        /\ error' = [error EXCEPT ![c] = IF result.has_existing_reservation THEN "limit" ELSE "none"]
  /\ pc' = [pc EXCEPT ![c] = "idle"]
  /\ isLoading' = [isLoading EXCEPT ![c] = FALSE]
  /\ success' = [success EXCEPT ![c] = FALSE]
  /\ run' = [run EXCEPT ![c] = NoRun]
  /\ lastResult' = IF requestOk THEN NoResult ELSE FailedLimitCheck
  /\ created' = [created EXCEPT ![c] = 0]
  /\ UNCHANGED <<reservations, admitLog, createTry, pageVars>>

\* variant of handleSubmit without the guard on hasExistingReservation
handleSubmitUnguarded(c, selectedDate, selectedTimeSlot, reservationType) ==
  /\ pc[c] = "idle"
  /\ IF selectedDate = NoDate \/ selectedTimeSlot = ""
       THEN /\ error' = [error EXCEPT ![c] = "select"]
            /\ UNCHANGED <<pc, isLoading, success, run>>
       ELSE IF FindSlot(selectedTimeSlot) = {}
         THEN /\ error' = [error EXCEPT ![c] = "invalidSlot"]
              /\ UNCHANGED <<pc, isLoading, success, run>>
         ELSE /\ isLoading' = [isLoading EXCEPT ![c] = TRUE]
              /\ error' = [error EXCEPT ![c] = "none"]
              /\ success' = [success EXCEPT ![c] = FALSE]
              /\ run' = [run EXCEPT ![c] =
                           [date |-> selectedDate,
                            slot |-> selectedTimeSlot,
                            rtype |-> reservationType,
                            rowsAtCheck |-> 0]]
              /\ pc' = [pc EXCEPT ![c] = "awaitConflict"]
  /\ lastResult' = NoResult
  /\ UNCHANGED <<reservations, admitLog, sessionUnit, hasExistingReservation,
                 existingReservations, tryVars, pageVars>>

\* handleSubmit up to its first await
handleSubmit(c, selectedDate, selectedTimeSlot, reservationType) ==
  /\ pc[c] = "idle"
  /\ IF hasExistingReservation[c]
       THEN /\ error' = [error EXCEPT ![c] = "limit"]
            /\ UNCHANGED <<pc, isLoading, success, run>>
       ELSE IF selectedDate = NoDate \/ selectedTimeSlot = ""
         THEN /\ error' = [error EXCEPT ![c] = "select"]
              /\ UNCHANGED <<pc, isLoading, success, run>>
         ELSE IF FindSlot(selectedTimeSlot) = {}
           THEN /\ error' = [error EXCEPT ![c] = "invalidSlot"]
                /\ UNCHANGED <<pc, isLoading, success, run>>
           ELSE /\ isLoading' = [isLoading EXCEPT ![c] = TRUE]
                /\ error' = [error EXCEPT ![c] = "none"]
                /\ success' = [success EXCEPT ![c] = FALSE]
                /\ run' = [run EXCEPT ![c] =
                             [date |-> selectedDate,
                              slot |-> selectedTimeSlot,
                              rtype |-> reservationType,
                              rowsAtCheck |-> 0]]
                /\ pc' = [pc EXCEPT ![c] = "awaitConflict"]
  /\ lastResult' = NoResult
  /\ UNCHANGED <<reservations, admitLog, sessionUnit, hasExistingReservation,
                 existingReservations, tryVars, pageVars>>

RunSlot(c) == CHOOSE i \in DOMAIN timeSlots : timeSlots[i].id = run[c].slot

\* variant of ConflictResponse whose check books the window when it is free
ConflictResponseHolding(c, requestOk) ==
  /\ pc[c] = "awaitConflict"
  /\ IF FormCheckConflict(reservations, run[c].rtype, run[c].date, RunSlot(c), requestOk)
       THEN /\ error' = [error EXCEPT ![c] = "conflict"]
            /\ isLoading' = [isLoading EXCEPT ![c] = FALSE]
            /\ pc' = [pc EXCEPT ![c] = "idle"]
            /\ run' = [run EXCEPT ![c] = NoRun]
            /\ UNCHANGED <<reservations, admitLog>>
       ELSE /\ pc' = [pc EXCEPT ![c] = "awaitCreate"]
            /\ run' = [run EXCEPT ![c].rowsAtCheck = Len(reservations)]
            /\ reservations' = StoreInsert(reservations, sessionUnit[c], run[c].rtype,
                                 SetHours(run[c].date, timeSlots[RunSlot(c)].startHour),
                                 SetHours(run[c].date, timeSlots[RunSlot(c)].endHour))
            /\ admitLog' = Append(admitLog, Len(reservations))
            /\ UNCHANGED <<error, isLoading>>
  /\ lastResult' = IF requestOk THEN NoResult ELSE FailedConflictCheck
  /\ UNCHANGED <<sessionUnit, hasExistingReservation, existingReservations, success,
                 tryVars, pageVars>>

\* variant of ConflictResponse whose conflict return leaves isLoading set
ConflictResponseLoading(c, requestOk) ==
  /\ pc[c] = "awaitConflict"
  /\ IF FormCheckConflict(reservations, run[c].rtype, run[c].date, RunSlot(c), requestOk)
       THEN /\ error' = [error EXCEPT ![c] = "conflict"]
            /\ pc' = [pc EXCEPT ![c] = "idle"]
            /\ run' = [run EXCEPT ![c] = NoRun]
            /\ UNCHANGED isLoading
       ELSE /\ pc' = [pc EXCEPT ![c] = "awaitCreate"]
            /\ run' = [run EXCEPT ![c].rowsAtCheck = Len(reservations)]
            /\ UNCHANGED <<error, isLoading>>
  /\ lastResult' = IF requestOk THEN NoResult ELSE FailedConflictCheck
  /\ UNCHANGED <<reservations, admitLog, sessionUnit, hasExistingReservation,
                 existingReservations, success, tryVars, pageVars>>

\* handleSubmit resumes with the answer of the conflict check
ConflictResponse(c, requestOk) ==
  /\ pc[c] = "awaitConflict"
  /\ IF FormCheckConflict(reservations, run[c].rtype, run[c].date, RunSlot(c), requestOk)
       THEN /\ error' = [error EXCEPT ![c] = "conflict"]
            /\ isLoading' = [isLoading EXCEPT ![c] = FALSE]
            /\ pc' = [pc EXCEPT ![c] = "idle"]
            /\ run' = [run EXCEPT ![c] = NoRun]
       ELSE /\ pc' = [pc EXCEPT ![c] = "awaitCreate"]
            /\ run' = [run EXCEPT ![c].rowsAtCheck = Len(reservations)]
            /\ UNCHANGED <<error, isLoading>>
  /\ lastResult' = IF requestOk THEN NoResult ELSE FailedConflictCheck
  /\ UNCHANGED <<reservations, admitLog, sessionUnit, hasExistingReservation,
                 existingReservations, success, tryVars, pageVars>>

\* handleSubmit resumes with the answer of createReservation
CreateResponse(c, requestOk) ==
  /\ pc[c] = "awaitCreate"
  /\ requestOk => Len(reservations) < MaxRes
  /\ IF requestOk
       THEN /\ reservations' = StoreInsert(reservations, sessionUnit[c], run[c].rtype,
                                 SetHours(run[c].date, timeSlots[RunSlot(c)].startHour),
                                 SetHours(run[c].date, timeSlots[RunSlot(c)].endHour))
            /\ admitLog' = Append(admitLog, run[c].rowsAtCheck)
            /\ success' = [success EXCEPT ![c] = TRUE]
            /\ hasExistingReservation' = [hasExistingReservation EXCEPT ![c] = TRUE]
            /\ UNCHANGED error
       ELSE /\ error' = [error EXCEPT ![c] = "createFailed"]
            /\ UNCHANGED <<reservations, admitLog, success, hasExistingReservation>>
  /\ isLoading' = [isLoading EXCEPT ![c] = FALSE]
  /\ pc' = [pc EXCEPT ![c] = "idle"]
  /\ run' = [run EXCEPT ![c] = NoRun]
  /\ lastResult' = NoResult
  /\ UNCHANGED <<sessionUnit, existingReservations, tryVars, pageVars>>

\* answers a createReservation request can meet: the row is committed or
\* not, and the browser gets the response or an axios error
CreateFates ==
  { [committed |-> TRUE,  answered |-> TRUE,  e |-> AxiosError(NoStatus, "", NoErrorCode)],
    [committed |-> TRUE,  answered |-> FALSE, e |-> AxiosError(NoStatus, "ECONNABORTED", NoErrorCode)],
    [committed |-> FALSE, answered |-> FALSE, e |-> AxiosError(NoStatus, "ERR_NETWORK", NoErrorCode)],
    [committed |-> FALSE, answered |-> FALSE, e |-> AxiosError(500, "ERR_BAD_RESPONSE", NoErrorCode)] }

\* one attempt of the createReservation request of handleSubmit: the
\* backend commits the row or not, the interceptor retries the request or
\* hands the outcome to handleSubmit, which then runs to its end
CreateAttempt(c, fate) ==
  /\ pc[c] = "awaitCreate"
  /\ fate.committed => Len(reservations) < MaxRes
  /\ IF fate.committed
       THEN /\ reservations' = StoreInsert(reservations, sessionUnit[c], run[c].rtype,
                                 SetHours(run[c].date, timeSlots[RunSlot(c)].startHour),
                                 SetHours(run[c].date, timeSlots[RunSlot(c)].endHour))
            /\ admitLog' = Append(admitLog, run[c].rowsAtCheck)
            /\ created' = [created EXCEPT ![c] = @ + 1]
       ELSE UNCHANGED <<reservations, admitLog, created>>
  /\ IF fate.answered
       THEN /\ success' = [success EXCEPT ![c] = TRUE]
            /\ hasExistingReservation' = [hasExistingReservation EXCEPT ![c] = TRUE]
            /\ isLoading' = [isLoading EXCEPT ![c] = FALSE]
            /\ pc' = [pc EXCEPT ![c] = "idle"]
            /\ run' = [run EXCEPT ![c] = NoRun]
            /\ createTry' = [createTry EXCEPT ![c] = NoTry]
            /\ UNCHANGED error
       ELSE IF shouldRetry(parseApiError(fate.e), createTry[c].retryCount)
         THEN /\ createTry' = [createTry EXCEPT ![c] =
                                 [retryCount |-> @.retryCount + 1,
                                  committed |-> @.committed + (IF fate.committed THEN 1 ELSE 0)]]
              /\ UNCHANGED <<success, hasExistingReservation, isLoading, pc, run, error>>
         ELSE /\ error' = [error EXCEPT ![c] = "createFailed"]
              /\ isLoading' = [isLoading EXCEPT ![c] = FALSE]
              /\ pc' = [pc EXCEPT ![c] = "idle"]
              /\ run' = [run EXCEPT ![c] = NoRun]
              /\ createTry' = [createTry EXCEPT ![c] = NoTry]
              /\ UNCHANGED <<success, hasExistingReservation>>
  /\ lastResult' = NoResult
  /\ UNCHANGED <<sessionUnit, existingReservations, pageVars>>

\* tokenUtils.setAccessToken / setRefreshToken after a login
setToken(key) ==
  /\ key \notin tokens
  /\ tokens' = tokens \cup {key}
  /\ UNCHANGED <<resVars, tryVars, request, sessionVars, home, adminVars, debounceVars>>

\* a call of api.get / post / put / patch / delete: a fresh request config
sendRequest(r) ==
  /\ request[r].state # "inFlight"
  /\ request' = [request EXCEPT ![r] = [NoRequest EXCEPT !.state = "inFlight", !.attempts = 1]]
  /\ UNCHANGED <<resVars, tryVars, tokens, sessionVars, home, adminVars, debounceVars>>

\* response interceptor, success handler
responseSuccess(r) ==
  /\ request[r].state = "inFlight"
  /\ request' = [request EXCEPT ![r].state = "resolved"]
  /\ UNCHANGED <<resVars, tryVars, tokens, sessionVars, home, adminVars, debounceVars>>

\* response interceptor, error handler, with retryRequest's new attempt
responseError(r, e) ==
  /\ request[r].state = "inFlight"
  /\ LET appError == parseApiError(e)
         clearing == appError.statusCode = 401 /\ ~request[r].retry
         retrying == shouldRetry(appError, request[r].retryCount)
     IN /\ tokens' = IF clearing THEN {} ELSE tokens
        /\ request' = [request EXCEPT ![r] =
              [state |-> IF retrying THEN "inFlight" ELSE "rejected",
               retryCount |-> IF retrying THEN @.retryCount + 1 ELSE @.retryCount,
               retry |-> @.retry \/ clearing,
               attempts |-> IF retrying THEN @.attempts + 1 ELSE @.attempts,
               clears |-> IF clearing THEN @.clears + 1 ELSE @.clears,
               code |-> appError.code,
               statusCode |-> appError.statusCode]]
  /\ UNCHANGED <<resVars, tryVars, sessionVars, home, adminVars, debounceVars>>

\* AdminReservations is rendered: the guard at /admin/reservations returns
\* its children
PageShown(r, status, data) == r = "admin" /\ AdminGuard(status, data) = "children"

\* components after the router or the session changed: a component that is
\* no longer rendered is unmounted and loses its state (Home's effect
\* cleanup clears its timer); a Home that stays mounted re-runs the effect
\* that depends on status
Rerender(r, status, data) ==
  /\ home' = IF r # "home" \/ route # "home" THEN NewHome
             ELSE IF status # session.status THEN [home EXCEPT !.effectDue = TRUE]
             ELSE home
  /\ IF PageShown(r, status, data)
       THEN UNCHANGED <<pageList, actionDialog, dialogLoading, calls>>
       ELSE /\ pageList' = NotLoaded
            /\ actionDialog' = NoDialog
            /\ dialogLoading' = FALSE
            /\ calls' = << >>
  /\ UNCHANGED <<decisions, resVars, tryVars, apiVars, debounceVars>>

\* the session request of SessionProvider is answered
sessionLoaded(data) ==
  /\ session.status = "loading"
  /\ session' = [status |-> IF data = NoSession THEN "unauthenticated" ELSE "authenticated",
                 data |-> data]
  /\ UNCHANGED route
  /\ Rerender(route, session'.status, data)

signIn(data) ==
  /\ session.status = "unauthenticated"
  /\ route = "login"
  /\ session' = [status |-> "authenticated", data |-> data]
  /\ UNCHANGED route
  /\ Rerender(route, "authenticated", data)

signOut ==
  /\ session.status = "authenticated"
  /\ session' = [status |-> "unauthenticated", data |-> NoSession]
  /\ UNCHANGED route
  /\ Rerender(route, "unauthenticated", NoSession)

\* router.push from a link or a handler of the page shown
navigate(r) ==
  /\ r # route
  /\ route' = r
  /\ UNCHANGED session
  /\ Rerender(r, session.status, session.data)

\* AdminGuard's effect
guardEffect ==
  /\ route = "admin"
  /\ session.status # "loading"
  /\ IF session.status = "unauthenticated"
       THEN route' = "login"
       ELSE /\ session.data # NoSession /\ ~isAdmin(session.data)
            /\ route' = "home"
  /\ UNCHANGED session
  /\ Rerender(route', session.status, session.data)

\* Home's effects after a commit: on mount the first sets the timer; the
\* second shows the content once the status is known
homeEffects ==
  /\ route = "home"
  /\ home.effectDue
  /\ LET show == session.status # "loading" \/ home.showContent
     IN home' = [showContent |-> show \/ home.showContent,
                 timer |-> IF home.timer = "unset" THEN "armed" ELSE home.timer,
                 elapsed |-> home.elapsed,
                 effectDue |-> show /\ ~home.showContent]
  /\ UNCHANGED <<sessionVars, adminVars, resVars, tryVars, apiVars, debounceVars>>

\* a second passes; a timer that is due fires first
homeTick ==
  /\ route = "home"
  /\ home.timer # "unset"
  /\ home.elapsed < MaxElapsed
  /\ ~(home.timer = "armed" /\ home.elapsed = TimerSeconds)
  /\ home' = [home EXCEPT !.elapsed = @ + 1]
  /\ UNCHANGED <<sessionVars, adminVars, resVars, tryVars, apiVars, debounceVars>>

\* variant of homeTimer whose callback leaves showContent alone
homeTimerIdle ==
  /\ route = "home"
  /\ home.timer = "armed"
  /\ home.elapsed = TimerSeconds
  /\ home' = [home EXCEPT !.timer = "fired"]
  /\ UNCHANGED <<sessionVars, adminVars, resVars, tryVars, apiVars, debounceVars>>

\* the callback of Home's timer
homeTimer ==
  /\ route = "home"
  /\ home.timer = "armed"
  /\ home.elapsed = TimerSeconds
  /\ home' = [home EXCEPT !.timer = "fired", !.showContent = TRUE,
                          !.effectDue = @ \/ ~home.showContent]
  /\ UNCHANGED <<sessionVars, adminVars, resVars, tryVars, apiVars, debounceVars>>

\* fetchReservations: the mount effect, a filter change, the refresh button
fetchReservations ==
  /\ PageShown(route, session.status, session.data)
  /\ actionDialog = NoDialog
  /\ pageList' = MockReservations
  /\ UNCHANGED <<actionDialog, dialogLoading, calls, decisions>>
  /\ UNCHANGED <<sessionVars, home, resVars, tryVars, apiVars, debounceVars>>

\* click on a row's approve or reject button
setActionDialog(id, action) ==
  /\ PageShown(route, session.status, session.data)
  /\ actionDialog = NoDialog
  /\ id \in DOMAIN pageList
  /\ OfferActions(pageList[id])
  /\ actionDialog' = [id |-> id, action |-> action]
  /\ dialogLoading' = FALSE
  /\ UNCHANGED <<pageList, calls, decisions>>
  /\ UNCHANGED <<sessionVars, home, resVars, tryVars, apiVars, debounceVars>>

\* onClose: the dialog's cancel button (disabled while isLoading) or the
\* Dialog's onOpenChange, which the page does not disable
onClose ==
  /\ actionDialog # NoDialog
  /\ actionDialog' = NoDialog
  /\ dialogLoading' = FALSE
  /\ UNCHANGED <<pageList, calls, decisions>>
  /\ UNCHANGED <<sessionVars, home, resVars, tryVars, apiVars, debounceVars>>

\* ActionDialog.handleConfirm up to the await in handleReservationAction
handleConfirm ==
  /\ actionDialog # NoDialog
  /\ ~dialogLoading
  /\ Len(calls) < MaxCalls
  /\ decisions[actionDialog.id] < MaxDecisions
  /\ dialogLoading' = TRUE
  /\ calls' = Append(calls, actionDialog)
  /\ decisions' = [decisions EXCEPT ![actionDialog.id] = @ + 1]
  /\ UNCHANGED <<pageList, actionDialog>>
  /\ UNCHANGED <<sessionVars, home, resVars, tryVars, apiVars, debounceVars>>

\* the service answers the oldest call: handleReservationAction replaces
\* the row, handleConfirm calls onClose
handleReservationAction ==
  /\ calls # << >>
  /\ LET updated == Head(calls)
     IN pageList' = [id \in DOMAIN pageList |->
                       IF id = updated.id THEN ActionStatus(updated.action)
                                               ELSE pageList[id]]
  /\ calls' = Tail(calls)
  /\ actionDialog' = NoDialog
  /\ dialogLoading' = FALSE
  /\ UNCHANGED decisions
  /\ UNCHANGED <<sessionVars, home, resVars, tryVars, apiVars, debounceVars>>

\* a call of the debounced validator: it clears the field's timer, sets a
\* new one and returns a promise; the timer of call n has id n
debouncedValidate(fieldName, value, required) ==
  /\ Len(promises) < MaxPromises
  /\ LET existingTimeout == timeouts[fieldName]
         timeoutId == Len(promises) + 1
     IN /\ timers' = (IF existingTimeout # NoTimer
                        THEN timers \ {existingTimeout} ELSE timers) \cup {timeoutId}
        /\ timeouts' = [timeouts EXCEPT ![fieldName] = timeoutId]
        /\ promises' = Append(promises,
              [fieldName |-> fieldName, value |-> value, required |-> required,
               state |-> "pending", isValid |-> FALSE])
  /\ UNCHANGED <<resVars, tryVars, apiVars, sessionVars, home, adminVars>>

\* the callback of a timer that is still set
debounceTimer(timeoutId) ==
  /\ timeoutId \in timers
  /\ timers' = timers \ {timeoutId}
  /\ timeouts' = [timeouts EXCEPT ![promises[timeoutId].fieldName] = NoTimer]
  /\ promises' = [promises EXCEPT ![timeoutId].state = "resolved",
                                  ![timeoutId].isValid =
                                     validateField(promises[timeoutId].value,
                                                   promises[timeoutId].required)]
  /\ UNCHANGED <<resVars, tryVars, apiVars, sessionVars, home, adminVars>>

\* ReservationService.updateReservationStatus (approve / reject)
updateReservationStatus(id, outcome) ==
  /\ id \in Stored(reservations)
  /\ reservations' = StoreDecide(reservations, id, outcome)
  /\ lastResult' = [op |-> "decide",
                    kind |-> IF StoreDecideAllowed(reservations, id)
                               THEN "ok" ELSE "InvalidStateTransition"]
  /\ UNCHANGED <<admitLog, sessionUnit>>
  /\ UNCHANGED <<formVars, tryVars, pageVars>>

\* section 4.3 cancel: the owner's transition of the design document
cancel(id) ==
  /\ id \in Stored(reservations)
  /\ reservations' = StoreCancel(reservations, id)
  /\ lastResult' = [op |-> "cancel",
                    kind |-> IF StoreCancelAllowed(reservations, id)
                               THEN "ok" ELSE "InvalidStateTransition"]
  /\ UNCHANGED <<admitLog, sessionUnit>>
  /\ UNCHANGED <<formVars, tryVars, pageVars>>

\* reservationApi.cancelReservation, issued from the user page's
\* handleCancelReservation: a DELETE request for the row
cancelReservation(id) ==
  /\ id \in Stored(reservations)
  /\ reservations' = StoreDelete(reservations, id)
  /\ lastResult' = [op |-> "cancel",
                    kind |-> IF StoreCancelAllowed(reservations, id)
                               THEN "ok" ELSE "InvalidStateTransition"]
  /\ UNCHANGED <<admitLog, sessionUnit>>
  /\ UNCHANGED <<formVars, tryVars, pageVars>>

Dates == {NoDate, 0}     \* dates the model's users pick

SeqClients == {"c1"}
SeqIdle == \A c \in SeqClients : pc[c] \in {"unmounted", "idle"}

\* operations one at a time: every handler runs to its end before the next
\* one starts; one browser, used by one session after the other
Next ==
  \/ \E c \in SeqClients, u \in Units, ok \in BOOLEAN : Mount(c, u, ok)
  \/ \E c \in SeqClients, d \in Dates, s \in SlotIds, t \in FormTypes : handleSubmit(c, d, s, t)
  \/ \E c \in SeqClients, ok \in BOOLEAN : ConflictResponse(c, ok)
  \/ \E c \in SeqClients, ok \in BOOLEAN : CreateResponse(c, ok)
  \/ \E id \in 1 .. MaxRes, o \in AdminOutcomes :
        SeqIdle /\ updateReservationStatus(id, o)
  \/ \E id \in 1 .. MaxRes :
        SeqIdle /\ cancelReservation(id)

Spec == Init /\ [][Next]_vars

\* two browsers submitting concurrently: the awaits of their handlers
\* interleave freely and every request is answered
NextRace ==
  \/ \E c \in Clients, u \in Units : Mount(c, u, TRUE)
  \/ \E c \in Clients, d \in Dates, s \in SlotIds, t \in FormTypes : handleSubmit(c, d, s, t)
  \/ \E c \in Clients : ConflictResponse(c, TRUE)
  \/ \E c \in Clients : CreateResponse(c, TRUE)

SpecRace == Init /\ [][NextRace]_vars

\* one browser and the admin page, operations one at a time, while the
\* backend may be unreachable for any of the two checks; every create and
\* every decide is answered
NextOutage ==
  \/ \E c \in SeqClients, u \in Units, ok \in BOOLEAN : Mount(c, u, ok)
  \/ \E c \in SeqClients, d \in Dates, s \in SlotIds, t \in FormTypes : handleSubmit(c, d, s, t)
  \/ \E c \in SeqClients, ok \in BOOLEAN : ConflictResponse(c, ok)
  \/ \E c \in SeqClients : CreateResponse(c, TRUE)
  \/ \E id \in 1 .. MaxRes, o \in AdminOutcomes :
        SeqIdle /\ updateReservationStatus(id, o)

SpecOutage == Init /\ [][NextOutage]_vars

\* one browser whose createReservation requests go through the retrying
\* HTTP client; every request in flight is answered or times out
NextForm ==
  \/ \E c \in SeqClients, u \in Units, ok \in BOOLEAN : Mount(c, u, ok)
  \/ \E c \in SeqClients, d \in Dates, s \in SlotIds, t \in FormTypes : handleSubmit(c, d, s, t)
  \/ \E c \in SeqClients, ok \in BOOLEAN : ConflictResponse(c, ok)
  \/ \E c \in SeqClients, fate \in CreateFates : CreateAttempt(c, fate)

SpecForm ==
  /\ Init
  /\ [][NextForm]_vars
  /\ WF_vars(\E c \in SeqClients, ok \in BOOLEAN : ConflictResponse(c, ok))
  /\ WF_vars(\E c \in SeqClients, fate \in CreateFates : CreateAttempt(c, fate))

\* requests through apiClient, interleaved
NextApi ==
  \/ \E key \in TokenKeys : setToken(key)
  \/ \E r \in Requests : sendRequest(r)
  \/ \E r \in Requests : responseSuccess(r)
  \/ \E r \in Requests, e \in AxiosErrors : responseError(r, e)

SpecApi == Init /\ [][NextApi]_vars

\* the pages of one browser tab under one session
NextPages ==
  \/ \E data \in SessionUsers \cup {NoSession} : sessionLoaded(data)
  \/ \E data \in SessionUsers : signIn(data)
  \/ signOut
  \/ \E r \in Routes : navigate(r)
  \/ guardEffect
  \/ homeEffects
  \/ homeTick
  \/ homeTimer
  \/ fetchReservations
  \/ \E id \in MockIds, action \in PageActions : setActionDialog(id, action)
  \/ onClose
  \/ handleConfirm
  \/ handleReservationAction

SpecPages == Init /\ [][NextPages]_vars

\* calls of one debounced validator; every timer that stays set fires
NextDebounce ==
  \/ \E f \in Fields, v \in Values, required \in BOOLEAN : debouncedValidate(f, v, required)
  \/ \E id \in 1 .. MaxPromises : debounceTimer(id)

SpecDebounce ==
  /\ Init
  /\ [][NextDebounce]_vars
  /\ WF_vars(\E id \in 1 .. MaxPromises : debounceTimer(id))

\* section 4.3 submit with steps 1-4 as one atomic step
NoUnit == ""
AtomicUnits == Units \cup {NoUnit}
AtomicTypes == FormTypes \cup {"stairs"}
AtomicWindows == {<<0, 3>>, <<3, 6>>, <<0, 6>>, <<3, 3>>}

\* outcome of steps 1-3: validation, then the unit check, then the conflict
\* check
AtomicOutcome(rows, unit, rtype, startTime, endTime) ==
  IF ~(rtype \in ResourceTypes /\ startTime < endTime /\ unit # NoUnit)
    THEN "ValidationError"
    ELSE IF StoreUnitActive(rows, unit) # {}
      THEN "UnitLimitExceeded"
      ELSE IF StoreConflicts(rows, rtype, startTime, endTime, NoExclude) # {}
        THEN "TimeConflict"
        ELSE "ok"

AtomicSubmit(unit, rtype, startTime, endTime) ==
  LET kind == AtomicOutcome(reservations, unit, rtype, startTime, endTime)
  IN /\ kind = "ok" => Len(reservations) < MaxRes
     /\ lastResult' = [op |-> "submit", kind |-> kind]
     /\ IF kind = "ok"
          THEN /\ reservations' = StoreInsert(reservations, unit, rtype, startTime, endTime)
               /\ admitLog' = Append(admitLog, Len(reservations))
          ELSE UNCHANGED <<reservations, admitLog>>
     /\ UNCHANGED sessionUnit
     /\ UNCHANGED <<formVars, tryVars, pageVars>>

NextAtomic ==
  \/ \E u \in AtomicUnits, t \in AtomicTypes, w \in AtomicWindows : AtomicSubmit(u, t, w[1], w[2])
  \/ \E id \in 1 .. MaxRes, o \in AdminOutcomes : updateReservationStatus(id, o)
  \/ \E id \in 1 .. MaxRes : cancel(id)

SpecAtomic == Init /\ [][NextAtomic]_vars

-----------------------------------------------------------------------------
(***************************************************************************)
(* Properties.                                                             *)
(***************************************************************************)

RowIds == Stored(reservations)
IsActive(i) == reservations[i].status \in {"pending", "approved"}
WindowsOverlap(i, j) ==
  /\ reservations[i].startTime < reservations[j].endTime
  /\ reservations[j].startTime < reservations[i].endTime
RunStart(c) == SetHours(run[c].date, timeSlots[RunSlot(c)].startHour)
RunEnd(c) == SetHours(run[c].date, timeSlots[RunSlot(c)].endHour)

\* C1 (P1, no double-booking): under operations executed one at a time, no
\* two distinct active reservations of the same resource type have
\* overlapping windows.
C1_NoDoubleBooking ==
  \A i, j \in RowIds :
    (i < j /\ reservations[i].rtype = reservations[j].rtype /\ IsActive(i) /\ IsActive(j))
      => ~WindowsOverlap(i, j)

\* C2 (P2, unit cardinality): under operations executed one at a time, each
\* unit owns at most one active reservation.
C2_UnitCardinality ==
  \A u \in Units :
    Cardinality({ i \in RowIds : reservations[i].unit = u /\ IsActive(i) }) <= 1

\* C3: with steps 2-4 of submit executed as one atomic step, P1 and P2 hold
\* in every state reachable by any interleaving of submit, decide and cancel.
C3_AtomicAdmissionSafe ==
  /\ \A i, j \in RowIds :
       (i # j /\ IsActive(i) /\ IsActive(j))
         => /\ reservations[i].unit # reservations[j].unit
            /\ reservations[i].rtype = reservations[j].rtype => ~WindowsOverlap(i, j)

\* two active rows of one resource type are stored, and a further submit of
\* one of their units has just been refused
C3_Witness ==
  /\ lastResult = [op |-> "submit", kind |-> "UnitLimitExceeded"]
  /\ \E i, j \in RowIds :
       /\ i < j /\ IsActive(i) /\ IsActive(j)
       /\ reservations[i].rtype = reservations[j].rtype

\* C4: with the checks and the insert of the form's submit as separate,
\* unserialised requests, two concurrent submissions can both pass their
\* checks before either insert commits and both are stored as pending; a
\* double booking arises only that way: the later row's conflict check was
\* answered before the earlier row was inserted.
C4_DoubleBookingByInterleaving ==
  \A i, j \in RowIds :
    (/\ i < j /\ IsActive(i) /\ IsActive(j)
     /\ reservations[i].rtype = reservations[j].rtype
     /\ WindowsOverlap(i, j))
      => admitLog[j] < i

\* two pending rows of the same unit and resource type with overlapping
\* windows, both checked while the store held neither of them
C4_Witness ==
  \E i, j \in RowIds :
    /\ i < j
    /\ reservations[i].status = "pending" /\ reservations[j].status = "pending"
    /\ reservations[i].rtype = reservations[j].rtype
    /\ reservations[i].unit = reservations[j].unit
    /\ WindowsOverlap(i, j)
    /\ admitLog[i] < i /\ admitLog[j] < i

LegalEdges ==
  { <<"pending", "approved">>, <<"pending", "rejected">>, <<"pending", "cancelled">>,
    <<"approved", "completed">>, <<"approved", "cancelled">> }

TouchesOnly(c) ==
  /\ \E i \in RowIds :
       /\ IsActive(i)
       /\ reservations[i].rtype = run[c].rtype
       /\ reservations[i].unit # sessionUnit[c]
       /\ reservations[i].endTime = RunStart(c) \/ reservations[i].startTime = RunEnd(c)
  /\ \A i \in RowIds :
       (IsActive(i) /\ reservations[i].rtype = run[c].rtype)
         => ~(reservations[i].startTime < RunEnd(c) /\ RunStart(c) < reservations[i].endTime)

\* C7 (P3, boundary non-overlap): when an active reservation ends exactly
\* where the candidate of another unit starts (or starts where it ends), the
\* conflict check reports no conflict and the submit is admitted.
C7_BoundaryAdmitted ==
  [][ \A c \in Clients :
        /\ (pc[c] = "awaitConflict" /\ pc'[c] # "awaitConflict" /\ TouchesOnly(c))
             => /\ pc'[c] = "awaitCreate"
                /\ error'[c] = "none"
        /\ (pc[c] = "awaitCreate" /\ pc'[c] # "awaitCreate")
             => /\ success'[c]
                /\ reservations' = Append(reservations,
                     [id |-> Len(reservations) + 1, unit |-> sessionUnit[c],
                      rtype |-> run[c].rtype, startTime |-> RunStart(c),
                      endTime |-> RunEnd(c), status |-> "pending"])
    ]_vars

\* two active rows of one resource type and of different units touch at a
\* boundary, and the later one was checked while the earlier one was stored
C7_Witness ==
  \E i, j \in RowIds :
    /\ i < j /\ IsActive(i) /\ IsActive(j)
    /\ reservations[i].rtype = reservations[j].rtype
    /\ reservations[i].unit # reservations[j].unit
    /\ reservations[i].endTime = reservations[j].startTime
    /\ admitLog[j] >= i

\* C8 (P4, terminal states don't block): a submit is refused for a time
\* conflict only when an active row overlaps it, and for the unit limit only
\* when its unit holds an active row; cancelled and rejected rows never
\* make a submit fail.
C8_TerminalRowsDontBlock ==
  [][ \A c \in Clients :
        /\ (pc[c] = "awaitConflict" /\ error'[c] = "conflict")
             => \E i \in RowIds :
                  /\ IsActive(i) /\ reservations[i].rtype = run[c].rtype
                  /\ reservations[i].startTime < RunEnd(c)
                  /\ RunStart(c) < reservations[i].endTime
        /\ (pc[c] = "idle" /\ pc'[c] = "idle" /\ error'[c] = "limit")
             => \E i \in RowIds :
                  IsActive(i) /\ reservations[i].unit = sessionUnit'[c]
    ]_vars

\* C9: the unit check comes first and counts every resource type: a submit
\* of a unit that holds an active reservation never gets as far as the
\* conflict check (it is refused with the unit limit, never with a time
\* conflict).
C9_UnitLimitFirst ==
  [][ \A c \in Clients :
        (pc[c] = "idle" /\ pc'[c] = "awaitConflict")
          => ~ \E i \in RowIds : IsActive(i) /\ reservations[i].unit = sessionUnit[c]
    ]_vars

\* instants offered to the conflict checker: 09:00, 12:00, 15:00 of day 0
\* and 09:00 of day 1
CandidateTimes == {SetHours(0, 9), SetHours(0, 12), SetHours(0, 15), SetHours(1, 9)}

\* C10: for every store content and candidate, checkConflict returns exactly
\* the active rows of the resource type, other than the excluded one, whose
\* window overlaps the candidate, and has_conflict tells whether there is one.
C10_ConflictCheckerExact ==
  \A t \in FormTypes, s, e \in CandidateTimes, x \in {NoExclude} \cup RowIds :
    s < e =>
      LET expected == { i \in RowIds :
                          /\ reservations[i].rtype = t
                          /\ IsActive(i)
                          /\ reservations[i].id # x
                          /\ reservations[i].startTime < e
                          /\ s < reservations[i].endTime }
          got == checkConflict(reservations, t, s, e, x, TRUE)
      IN /\ got.conflicting_reservations = expected
         /\ got.has_conflict <=> expected # {}

OutcomeBlocking(kind, existing) == IF kind = "limit" THEN existing ELSE {}

DayHours == 0 .. HoursPerDay - 1

\* a request of the wrong shape: unknown resource type, empty or inverted
\* window, or no unit
Malformed(unit, rtype, startTime, endTime) ==
  ~(rtype \in ResourceTypes /\ startTime < endTime /\ unit # NoUnit)

\* validateReservationTime passes no window whose end is not after its start
ValidatorRefusesInverted ==
  \A s, e \in DayHours : validateReservationTime(s, e) = "null" => s < e

\* validateReservationTime passes the three slots of the form
ValidatorPassesSlots ==
  \A i \in DOMAIN timeSlots :
    validateReservationTime(timeSlots[i].startHour, timeSlots[i].endHour) = "null"

C16_DecideCancelFrame ==
  [][ (lastResult'.kind = "ok" /\ lastResult'.op \in {"decide", "cancel"})
        => \E id \in RowIds :
             /\ id \in RowIds'
             /\ reservations'[id] =
                  [reservations[id] EXCEPT !.status = reservations'[id].status]
             /\ \A k \in RowIds \ {id} : k \in RowIds' /\ reservations'[k] = reservations[k]
             /\ Len(reservations') = Len(reservations)
    ]_vars

\* C17: no operation removes a reservation: the set of stored ids never
\* shrinks, and a cancelled or rejected reservation stays in the store with
\* that status.
C17_NothingRemoved ==
  [][ \A id \in RowIds :
        /\ id \in RowIds'
        /\ reservations[id].status \in {"cancelled", "rejected"}
             => reservations'[id].status = reservations[id].status
    ]_vars

C19_FailOpen ==
  /\ \A t \in FormTypes, s, e \in CandidateTimes :
       checkConflict(reservations, t, s, e, NoExclude, FALSE) =
         [has_conflict |-> FALSE, conflicting_reservations |-> {}]
  /\ \A u \in Units :
       checkApartmentReservationLimit(reservations, u, FALSE) =
         [has_existing_reservation |-> FALSE, existing_reservations |-> {}]
  /\ lastResult = FailedLimitCheck
       => \E c \in Clients :
            /\ pc[c] = "idle" /\ ~hasExistingReservation[c]
            /\ existingReservations[c] = {} /\ error[c] = "none"
  /\ lastResult = FailedConflictCheck
       => \E c \in Clients :
            pc[c] = "awaitCreate" /\ error[c] = "none" /\ isLoading[c]

\* the conflict check of a run has just failed and the run waits for its
\* create, while the store holds an active row of the run's unit and an
\* active row of its type that overlaps its window
C19_Witness ==
  /\ lastResult = FailedConflictCheck
  /\ \E c \in Clients :
       /\ pc[c] = "awaitCreate"
       /\ \E i \in RowIds : IsActive(i) /\ reservations[i].unit = sessionUnit[c]
       /\ \E i \in RowIds :
            /\ IsActive(i) /\ reservations[i].rtype = run[c].rtype
            /\ reservations[i].startTime < RunEnd(c)
            /\ RunStart(c) < reservations[i].endTime

\* C20: the admission fails closed: whatever happens to the requests of the
\* two checks, a row is stored only when its unit holds no active row and no
\* active row of its type overlaps its window.
C20_FailClosed ==
  [][ \A c \in Clients :
        (pc[c] = "awaitCreate" /\ success'[c])
          => \A i \in RowIds :
               IsActive(i)
                 => /\ reservations[i].unit # sessionUnit[c]
                    /\ reservations[i].rtype = run[c].rtype
                         => ~(reservations[i].startTime < RunEnd(c)
                                /\ RunStart(c) < reservations[i].endTime)
    ]_vars

\* C21: handleSubmit sends createReservation only in a run that found
\* hasExistingReservation false, captured a date and a slot of timeSlots, and
\* whose own checkConflict returned has_conflict = false (when the check was
\* answered, the store held no conflicting row); a run that finds the flag
\* set, an incomplete selection, or a conflict sends no createReservation.
C21_CreateOnlyAfterChecks ==
  [][\A c \in SeqClients :
       /\ (pc[c] = "idle" /\ pc'[c] # "idle") =>
             /\ pc'[c] = "awaitConflict"
             /\ ~hasExistingReservation[c]
             /\ run'[c].date # NoDate
             /\ FindSlot(run'[c].slot) # {}
       /\ (pc[c] # "awaitCreate" /\ pc'[c] = "awaitCreate") =>
             /\ pc[c] = "awaitConflict"
             /\ ~hasExistingReservation[c]
             /\ run'[c].date = run[c].date /\ run'[c].slot = run[c].slot
             /\ lastResult' \in {NoResult, FailedConflictCheck}
             /\ lastResult' = NoResult =>
                  ~StoreConflictCheck(reservations,
                      ConflictParams(run[c].rtype,
                         SetHours(run[c].date, timeSlots[RunSlot(c)].startHour),
                         SetHours(run[c].date, timeSlots[RunSlot(c)].endHour),
                         NoExclude)).has_conflict
       /\ (pc[c] = "awaitConflict" /\ pc'[c] = "idle") =>
             /\ error'[c] = "conflict"
             /\ reservations' = reservations
       /\ reservations' # reservations => \E d \in SeqClients : pc[d] = "awaitCreate"
  ]_vars

\* a createReservation is sent, after an answered check, for a window that
\* is free while the store already holds a row
C21_Witness ==
  \E c \in SeqClients :
     /\ pc[c] = "awaitCreate"
     /\ lastResult = NoResult
     /\ Len(reservations) >= 1
     /\ createTry[c] = NoTry

\* C22: after a successful createReservation hasExistingReservation is set
\* and stays set for the instance, so its later handleSubmit runs send
\* nothing; one form instance creates at most one reservation.
C22_OneRowPerInstance ==
  \A c \in SeqClients :
     /\ success[c] => hasExistingReservation[c]
     /\ hasExistingReservation[c] => pc[c] \in {"unmounted", "idle"}
     /\ created[c] <= 1

\* C23: a handleSubmit run ends with the success message exactly when the
\* create attempts of that run committed one row.
C23_SuccessIffOneRow ==
  [][\A c \in SeqClients :
       (pc[c] = "awaitCreate" /\ pc'[c] = "idle") =>
          (success'[c] <=>
             createTry[c].committed + (Len(reservations') - Len(reservations)) = 1)
  ]_vars

\* C25: every handleSubmit run that sets isLoading resets it.
C25_LoadingEnds ==
  \A c \in SeqClients : isLoading[c] ~> ~isLoading[c]

\* a run is loading while its create request is at its last retry
C25_Witness ==
  \E c \in SeqClients :
     /\ isLoading[c]
     /\ pc[c] = "awaitCreate"
     /\ createTry[c].retryCount = maxRetries

\* C24: a failed request is retried only for a code of retryOn and at most
\* maxRetries times; a request that fails after its last retry is rejected,
\* so every call settles after at most maxRetries + 1 attempts.
C24_BoundedRetries ==
  \A r \in Requests :
     /\ request[r].retryCount <= maxRetries
     /\ request[r].attempts <= maxRetries + 1
     /\ request[r].state # "idle" => request[r].attempts = request[r].retryCount + 1
     /\ (request[r].state = "inFlight" /\ request[r].retryCount > 0) =>
           request[r].code \in retryOn
     /\ (request[r].state = "rejected" /\ request[r].code \in retryOn) =>
           request[r].retryCount = maxRetries

\* a request is rejected with a timeout after its third retry
C24_Witness ==
  \E r \in Requests :
     /\ request[r].state = "rejected"
     /\ request[r].code = "TIMEOUT_ERROR"
     /\ request[r].attempts = maxRetries + 1

\* C26: a response with status 401 makes the interceptor clear both tokens
\* and reject the request without another attempt; the clearing runs at most
\* once per request.
C26_UnauthorizedClearsOnce ==
  [][\A r \in Requests :
       /\ request'[r].clears <= 1
       /\ ( /\ request[r].state = "inFlight"
            /\ request'[r].state = "rejected" \/ request'[r].attempts > request[r].attempts
            /\ request'[r].statusCode = 401 ) =>
              /\ tokens' = {}
              /\ request'[r].state = "rejected"
              /\ request'[r].attempts = request[r].attempts
              /\ request'[r].retry
              /\ request'[r].clears = 1
  ]_vars

\* a request is answered 401 after a retried network failure, while the
\* tokens were stored
C26_Witness ==
  \E r \in Requests :
     /\ request[r].state = "rejected"
     /\ request[r].statusCode = 401
     /\ request[r].retryCount > 0
     /\ request[r].clears = 1
     /\ tokens = {}

\* C27: the page opens the decide dialog only for a row that is pending in
\* its list, and no row is sent to decide a second time.
C27_DecidedOnce ==
  /\ actionDialog # NoDialog => pageList[actionDialog.id] = "pending"
  /\ \A i \in 1 .. Len(calls) : calls[i].id \in DOMAIN pageList
  /\ \A id \in MockIds : decisions[id] <= 1

\* C28: Home shows its content from the moment its timer fires at the
\* latest, whatever the session status, and never hides it again while it
\* stays mounted.
C28_ContentShown ==
  [][ /\ home'.timer = "fired" => home'.showContent
      /\ home'.elapsed > TimerSeconds => home'.showContent
      /\ (home.showContent /\ route = "home" /\ route' = "home") => home'.showContent
  ]_vars

\* the timer has fired while the session status is still loading
C28_Witness ==
  /\ route = "home"
  /\ session.status = "loading"
  /\ home.timer = "fired"
  /\ home.showContent

C30_PromisesResolve ==
  \A n \in 1 .. MaxPromises :
     (Len(promises) >= n) ~>
        ( /\ Len(promises) >= n
          /\ promises[n].state = "resolved"
          /\ promises[n].isValid = validateField(promises[n].value, promises[n].required) )

TypeOK ==
  /\ Len(reservations) <= MaxRes
  /\ \A i \in DOMAIN reservations : reservations[i].id = i /\ reservations[i].status \in Statuses \cup {Removed}
  /\ pc \in [Clients -> {"unmounted", "idle", "awaitConflict", "awaitCreate"}]
  /\ \A c \in Clients : createTry[c].retryCount \in 0 .. maxRetries
  /\ \A r \in Requests : request[r].state \in {"idle", "inFlight", "resolved", "rejected"}
  /\ tokens \subseteq TokenKeys

=============================================================================
